---- MODULE Spec2Model ----
(***************************************************************************)
(* Model of the authentication/session glue layer:                         *)
(*   - retryWithBackoff (src/utils/retryHelper.ts), any number of calls    *)
(*     interleaved at their await points, with the logger it writes to     *)
(*     and the queue of expired timers;                                    *)
(*   - isNetworkError (src/utils/retryHelper.ts), on strings modelled as   *)
(*     sequences of characters;                                            *)
(*   - FirebaseAuthProvider (src/contexts/FirebaseAuthContext.tsx): the    *)
(*     onAuthStateChanged callback, one handler instance per notification, *)
(*     and the context operations, all interleaved at their awaits.        *)
(***************************************************************************)
EXTENDS Integers, Sequences, FiniteSets, TLC

\* ------------------------------------------------------------------ bounds
MaxAttemptsBound == 3
NumCalls == 2
MaxNotifications == 2
MaxOps == 2

\* --------------------------------------------------------- program constants
DefaultMaxAttempts == 3
DefaultDelayMs == 1000
DefaultBackoff == TRUE

\* ------------------------------------------------------------ input domains
Calls == 1..NumCalls
OpErrors == {"E1", "E2", "E3"}        \* errors an operation may reject with
CbError == "CB"                       \* the error a throwing onRetry throws
Undefined == "undefined"              \* the JavaScript value undefined
OpValues == {42}                      \* values an operation may resolve with
DelayChoices == {0, 100}

\* An options object is a function from the keys that are present to their
\* values; a key that is absent is an omitted (undefined) option.
NoOptions == [k \in {} |-> 0]
OptionField(k, S) == {NoOptions} \cup {(k :> v) : v \in S}
AllOptions ==
    {a @@ b @@ c @@ d :
        a \in OptionField("maxAttempts", (-1)..MaxAttemptsBound),
        b \in OptionField("delayMs", DelayChoices),
        c \in OptionField("backoff", BOOLEAN),
        d \in OptionField("onRetry", {"callback"})}
\* The options of calls that retry, with and without a real delay.
LoopOptions == {("maxAttempts" :> 2) @@ ("delayMs" :> d) : d \in DelayChoices}
\* The options of calls that run concurrently with each other.
ConcurrentOptions ==
    {a @@ d :
        a \in {("maxAttempts" :> n) : n \in 1..2},
        d \in OptionField("onRetry", {"callback"})}

VARIABLES
    options,     \* options[c]: the options object call c was invoked with
    pc,          \* pc[c]: where call c is
    attempt,     \* the loop variable `attempt` of each activation
    lastError,   \* the local `lastError` of each activation
    trace,       \* trace[c]: what call c has done and observed, in order
    config,      \* the configuration of the exported logger
    console,     \* console[c]: what the logger wrote for call c, in order
    ready,       \* the calls whose timer has expired, in the order their
                 \* callbacks will run
    classified,  \* the last call of isNetworkError: its argument and result
    user, userProfile, loading, isAuthenticated, error,   \* provider state
    notified,    \* the users carried by the notifications delivered so far
    hpc,         \* hpc[h]: where the handler of notification h is
    opc,         \* opc[o]: where the call of provider operation o is
    navCount     \* the router.replace('/auth/login') requests made so far

retryVars == <<options, pc, attempt, lastError, trace, config, console, ready>>
authVars == <<user, userProfile, loading, isAuthenticated, error, notified, hpc,
              opc, navCount>>
clientVars == <<opc, navCount>>
classifyVars == <<classified>>
vars == <<options, pc, attempt, lastError, trace, config, console, ready,
          user, userProfile, loading, isAuthenticated, error, notified, hpc,
          opc, navCount, classified>>

\* ------------------------------------------------------------ isNetworkError
\* A string is the sequence of its characters.
UpperLetters ==
    <<"A", "B", "C", "D", "E", "F", "G", "H", "I", "J", "K", "L", "M", 
     "N", "O", "P", "Q", "R", "S", "T", "U", "V", "W", "X", "Y", "Z">>
LowerLetters ==
    <<"a", "b", "c", "d", "e", "f", "g", "h", "i", "j", "k", "l", "m", 
     "n", "o", "p", "q", "r", "s", "t", "u", "v", "w", "x", "y", "z">>
\* String.prototype.toLowerCase
toLowerCase(s) ==
    [i \in 1..Len(s) |->
        IF \E k \in 1..Len(UpperLetters) : UpperLetters[k] = s[i]
        THEN LowerLetters[CHOOSE k \in 1..Len(UpperLetters) : UpperLetters[k] = s[i]]
        ELSE s[i]]
toUpperCase(s) ==
    [i \in 1..Len(s) |->
        IF \E k \in 1..Len(LowerLetters) : LowerLetters[k] = s[i]
        THEN UpperLetters[CHOOSE k \in 1..Len(LowerLetters) : LowerLetters[k] = s[i]]
        ELSE s[i]]
\* String.prototype.includes
includes(s, sub) ==
    \E i \in 0..(Len(s) - Len(sub)) : SubSeq(s, i + 1, i + Len(sub)) = sub

networkErrorMessages ==
    {<<"n", "e", "t", "w", "o", "r", "k", " ", "r", "e", "q", "u", "e", "s", "t", " ", "f", "a", "i", "l", "e", "d">>,
     <<"f", "a", "i", "l", "e", "d", " ", "t", "o", " ", "f", "e", "t", "c", "h">>,
     <<"n", "e", "t", "w", "o", "r", "k", " ", "e", "r", "r", "o", "r">>,
     <<"t", "i", "m", "e", "o", "u", "t">>,
     <<"c", "o", "n", "n", "e", "c", "t", "i", "o", "n", " ", "r", "e", "f", "u", "s", "e", "d">>,
     <<"E", "R", "R", "_", "N", "E", "T", "W", "O", "R", "K">>,
     <<"E", "R", "R", "_", "I", "N", "T", "E", "R", "N", "E", "T", "_", "D", "I", "S", "C", "O", "N", "N", "E", "C", "T", "E", "D">>}

\* The error values passed in: null, an object without a message, an object
\* with a message.
NullError == [type |-> "null"]
ErrorWithoutMessage == [type |-> "object"]
ErrorWith(m) == [type |-> "object", message |-> m]

\* const errorMessage = error?.message?.toLowerCase() || ''
errorMessage(err) ==
    IF err.type = "null" \/ "message" \notin DOMAIN err THEN <<>>
    ELSE toLowerCase(err.message)
\* return networkErrorMessages.some((msg) => errorMessage.includes(msg))
isNetworkError(err) ==
    \E msg \in networkErrorMessages : includes(errorMessage(err), msg)

\* The messages of the errors passed in: the markers as listed, in upper and
\* in lower case, and messages without a marker, alone or inside a longer
\* message.
Phrases ==
    networkErrorMessages
    \cup {toUpperCase(m) : m \in networkErrorMessages}
    \cup {toLowerCase(m) : m \in networkErrorMessages}
    \cup {<<>>,
          <<"T", "i", "m", "e", "o", "u", "t">>,
          <<"N", "e", "t", "w", "o", "r", "k", " ", "E", "r", "r", "o", "r">>,
          <<"p", "e", "r", "m", "i", "s", "s", "i", "o", "n", " ", "d", "e", "n", "i", "e", "d">>,
          <<"t", "i", "m", "e", " ", "o", "u", "t">>,
          <<"n", "o", "t", " ", "f", "o", "u", "n", "d">>}
Prefixes ==
    {<<>>,
     <<"E", "r", "r", "o", "r", ":", " ">>,
     <<"T", "y", "p", "e", "E", "r", "r", "o", "r", ":", " ">>}
Suffixes ==
    {<<>>,
     <<" ", "a", "g", "a", "i", "n">>}
ErrorValues ==
    {NullError, ErrorWithoutMessage}
    \cup {ErrorWith(a \o m \o b) : a \in Prefixes, m \in Phrases, b \in Suffixes}

\* -------------------------------------------------------------------- Logger
LOG_LEVELS == [debug |-> 0, info |-> 1, warn |-> 2, error |-> 3]

\* new Logger(): the configuration the constructor builds without an argument,
\* where isDevelopment is process.env.NODE_ENV !== 'production'.
LoggerConfig(isDevelopment) ==
    [enabled |-> isDevelopment, level |-> IF isDevelopment THEN "debug" ELSE "warn"]

\* shouldLog(level)
ShouldLogIgnoresEnabled(level) == LOG_LEVELS[level] >= LOG_LEVELS[config.level]
ShouldLog(level) ==
    IF ~config.enabled THEN FALSE
    ELSE LOG_LEVELS[level] >= LOG_LEVELS[config.level]

\* logger.warn / logger.error: of the messages among evs, those written to the
\* console (console.warn, console.error).
Written(evs) ==
    SelectSeq(evs, LAMBDA x : x.ev \in {"warn", "error"} /\ ShouldLog(x.ev))

\* ---------------------------------------------------------- retryWithBackoff
\* Destructuring with defaults.
OptionOr(o, k, default) == IF k \in DOMAIN o THEN o[k] ELSE default
maxAttempts(c) == OptionOr(options[c], "maxAttempts", DefaultMaxAttempts)
delayMs(c) == OptionOr(options[c], "delayMs", DefaultDelayMs)
backoff(c) == OptionOr(options[c], "backoff", DefaultBackoff)
onRetry(c) == "onRetry" \in DOMAIN options[c]

\* Each activation of retryWithBackoff has its own `attempt` and `lastError`.
SlotShared(c) == 1
Slot(c) == c

\* for (...; attempt <= maxAttempts; ...)
LoopCondAtLeastOnce(a, max) == a = 1 \/ a <= max
LoopCond(a, max) == a <= max

\* if (attempt === maxAttempts)
IsLastAttemptEarly(a, max) == a >= max - 1
IsLastAttemptNever(a, max) == a > max
IsLastAttempt(a, max) == a = max

\* const delay = backoff ? delayMs * attempt : delayMs
DelayZeroBased(b, ms, a) == IF b THEN ms * (a - 1) ELSE ms
Delay(b, ms, a) == IF b THEN ms * a ELSE ms

\* throw error (attempts exhausted): the error just caught
ExhaustedErrorFirst(caught, previous) ==
    IF previous = Undefined THEN caught ELSE previous
ExhaustedError(caught, previous) == caught

\* if (onRetry)
CallsOnRetrySkipsFirst(has, a) == has /\ a > 1
CallsOnRetry(has, a) == has

\* setTimeout(resolve, d): a timer of 0 ms has expired as soon as it is set and
\* its callback is queued behind the callbacks that are already due; a longer
\* one expires later.
ScheduleAhead(q, c, d) == IF d = 0 THEN <<c>> \o q ELSE q
Schedule(q, c, d) == IF d = 0 THEN Append(q, c) ELSE q

\* The call is suspended at await new Promise(... setTimeout ...).
SuspendedOrInFlight(c) == pc[c] \in {"delay", "await_fn"}
Suspended(c) == pc[c] = "delay"
InQueue(q, c) == \E i \in 1..Len(q) : q[i] = c

Event(kind, n, err, num) == [ev |-> kind, n |-> n, err |-> err, num |-> num]
Last(s) == s[Len(s)]
Has(evs, kind) == \E i \in 1..Len(evs) : evs[i].ev = kind

\* What the loop head does when entered with attempt = a and lastError = le:
\* fn() is invoked, or the loop is left and lastError is thrown.
HeadEvents(max, a, le) ==
    IF LoopCond(a, max)
    THEN <<Event("call", a, "", 0)>>
    ELSE <<Event("reject", a, le, 0)>>

\* The retry branch of the catch block, in the order of the code: the warning,
\* onRetry(attempt, error) if it is given (an exception it throws leaves the
\* function), then the timer is started.
RetryEventsDelayFirst(a, e, d, has, cbThrows) ==
    <<Event("warn", a, e, d), Event("timer", a, "", d)>>
    \o (IF CallsOnRetry(has, a)
        THEN <<Event("onRetry", a, e, 0)>>
             \o (IF cbThrows
                 THEN <<Event("threw", a, CbError, 0), Event("reject", a, CbError, 0)>>
                 ELSE <<>>)
        ELSE <<>>)
RetryEventsSwallow(a, e, d, has, cbThrows) ==
    <<Event("warn", a, e, d)>>
    \o (IF CallsOnRetry(has, a)
        THEN <<Event("onRetry", a, e, 0)>>
             \o (IF cbThrows THEN <<Event("threw", a, CbError, 0)>> ELSE <<>>)
        ELSE <<>>)
    \o <<Event("timer", a, "", d)>>
RetryEvents(a, e, d, has, cbThrows) ==
    <<Event("warn", a, e, d)>>
    \o (IF CallsOnRetry(has, a)
        THEN <<Event("onRetry", a, e, 0)>>
             \o (IF cbThrows
                 THEN <<Event("threw", a, CbError, 0), Event("reject", a, CbError, 0)>>
                 ELSE <<Event("timer", a, "", d)>>)
        ELSE <<Event("timer", a, "", d)>>)

\* The catch block, entered with attempt = a, the error e just caught and the
\* previous value of lastError.
CatchEvents(c, a, e, prev, cbThrows) ==
    <<Event("fail", a, e, 0)>>
    \o (IF IsLastAttempt(a, maxAttempts(c))
        THEN <<Event("error", maxAttempts(c), e, 0),
               Event("reject", a, ExhaustedError(e, prev), 0)>>
        ELSE RetryEvents(a, e, Delay(backoff(c), delayMs(c), a), onRetry(c), cbThrows))

\* Where the call is after a synchronous run that did evs.
PcAfter(evs) ==
    IF Has(evs, "reject") THEN "rejected"
    ELSE IF Has(evs, "resolve") THEN "resolved"
    ELSE IF Has(evs, "timer") THEN "delay"
    ELSE "await_fn"

Run(c, evs) ==
    /\ trace' = [trace EXCEPT ![c] = @ \o evs]
    /\ pc' = [pc EXCEPT ![c] = PcAfter(evs)]
    /\ console' = [console EXCEPT ![c] = @ \o Written(evs)]

\* The call is entered: let lastError; attempt = 1; loop head.
Begin(c) ==
    /\ pc[c] = "called"
    /\ lastError' = [lastError EXCEPT ![Slot(c)] = Undefined]
    /\ attempt' = [attempt EXCEPT ![Slot(c)] = 1]
    /\ Run(c, HeadEvents(maxAttempts(c), 1, Undefined))
    /\ UNCHANGED <<options, config, ready, authVars, classifyVars>>

\* The promise of fn() is fulfilled with v: return await fn().
FnResolves(c, v) ==
    /\ pc[c] = "await_fn"
    /\ Run(c, <<Event("ok", attempt[Slot(c)], "", v),
                Event("resolve", attempt[Slot(c)], "", v)>>)
    /\ UNCHANGED <<options, attempt, lastError, config, ready, authVars, classifyVars>>

\* The promise of fn() is rejected with e: the catch block, up to the throw or
\* the await of the timer. cbThrows says what onRetry does if it is called.
FnRejects(c, e, cbThrows) ==
    /\ pc[c] = "await_fn"
    /\ LET evs == CatchEvents(c, attempt[Slot(c)], e, lastError[Slot(c)], cbThrows)
       IN /\ cbThrows => Has(evs, "threw")
          /\ Run(c, evs)
          /\ ready' = (IF Has(evs, "timer")
                       THEN Schedule(ready, c, Last(evs).num)
                       ELSE ready)
    /\ lastError' = [lastError EXCEPT ![Slot(c)] = e]
    /\ UNCHANGED <<options, attempt, config, authVars, classifyVars>>

\* The timer of the call expires: its callback is due, behind those that
\* already are.
TimerExpires(c) ==
    /\ Suspended(c)
    /\ ~InQueue(ready, c)
    /\ ready' = Append(ready, c)
    /\ UNCHANGED <<options, pc, attempt, lastError, trace, config, console, authVars, classifyVars>>

\* The timer callback of the call runs, the first of those due: the await
\* ends, attempt++, and the loop head again.
TimerFires(c) ==
    /\ Suspended(c)
    /\ ready # <<>> /\ Head(ready) = c
    /\ ready' = Tail(ready)
    /\ attempt' = [attempt EXCEPT ![Slot(c)] = @ + 1]
    /\ Run(c, <<Event("timeout", attempt[Slot(c)], "", 0)>>
              \o HeadEvents(maxAttempts(c), attempt[Slot(c)] + 1, lastError[Slot(c)]))
    /\ UNCHANGED <<options, lastError, config, authVars, classifyVars>>

\* One call run alone from the loop head with attempt = a and lastError = le,
\* fed the results ins (what fn() settled with, whether onRetry threw, the
\* timers firing) in order: everything it does.
RECURSIVE Alone(_, _, _, _)
Alone(c, ins, a, le) ==
    LET head == HeadEvents(maxAttempts(c), a, le) IN
    IF Has(head, "reject") \/ ins = <<>> THEN head
    ELSE IF ins[1].ev = "ok"
    THEN head \o <<ins[1], Event("resolve", a, "", ins[1].num)>>
    ELSE LET throws == Len(ins) >= 2 /\ ins[2].ev = "threw"
             evs == CatchEvents(c, a, ins[1].err, le, throws)
             rest == SubSeq(ins, IF throws THEN 3 ELSE 2, Len(ins))
         IN head \o evs \o
            (IF Has(evs, "reject") \/ rest = <<>> THEN <<>>
             ELSE <<Event("timeout", a, "", 0)>>
                  \o Alone(c, Tail(rest), a + 1, ins[1].err))

\* ------------------------------------------------- FirebaseAuthProvider
Null == "null"
AuthUsers == {"A", "B"}
ErrAuth == "Authentication error occurred"
Handlers == 1..MaxNotifications
HandlerDone(h) == hpc[h] \in {"done", "failed"}

\* catch (error) { setError(...); setUser(null); setUserProfile(null);
\* setIsAuthenticated(false) } finally { setLoading(false) }
HandlerFailsStaysAuthenticated(h) ==
    /\ error' = ErrAuth
    /\ user' = Null
    /\ userProfile' = Null
    /\ UNCHANGED isAuthenticated
    /\ loading' = FALSE
    /\ hpc' = [hpc EXCEPT ![h] = "failed"]
HandlerFails(h) ==
    /\ error' = ErrAuth
    /\ user' = Null
    /\ userProfile' = Null
    /\ isAuthenticated' = FALSE
    /\ loading' = FALSE
    /\ hpc' = [hpc EXCEPT ![h] = "failed"]

\* The try block ends normally: finally { setLoading(false) }
HandlerEnds(h) ==
    /\ loading' = FALSE
    /\ hpc' = [hpc EXCEPT ![h] = "done"]

\* The identity provider notifies the callback with firebaseUser = u: the
\* callback runs up to its first await.
AuthStateChanged(u) ==
    /\ Len(notified) < MaxNotifications
    /\ notified' = Append(notified, u)
    /\ loading' = TRUE
    /\ error' = Null
    /\ IF u # Null
       THEN /\ user' = u
            /\ isAuthenticated' = TRUE
            /\ UNCHANGED userProfile
            /\ hpc' = [hpc EXCEPT ![Len(notified) + 1] = "saveUser"]
       ELSE /\ user' = Null
            /\ userProfile' = Null
            /\ isAuthenticated' = FALSE
            /\ hpc' = [hpc EXCEPT ![Len(notified) + 1] = "clearAllData"]
    /\ UNCHANGED <<retryVars, clientVars, classifyVars>>

\* await AuthService.saveUser(authUser) settles.
SaveUserSettles(h, ok) ==
    /\ hpc[h] = "saveUser"
    /\ IF ok
       THEN /\ hpc' = [hpc EXCEPT ![h] = "getUserProfile"]
            /\ UNCHANGED <<user, userProfile, loading, isAuthenticated, error>>
       ELSE HandlerFails(h)
    /\ UNCHANGED <<notified, retryVars, clientVars, classifyVars>>

\* await FirebaseService.getUserProfile(uid) settles: with the profile of the
\* user, with null (not found), or rejected; then checkAndMigrateLocalData
\* runs up to its await of AuthService.getUser().
GetUserProfileSettles(h, r) ==
    /\ hpc[h] = "getUserProfile"
    /\ IF r = "throws"
       THEN HandlerFails(h)
       ELSE /\ userProfile' = (IF r = "found" THEN notified[h] ELSE Null)
            /\ hpc' = [hpc EXCEPT ![h] = "getUser"]
            /\ UNCHANGED <<user, loading, isAuthenticated, error>>
    /\ UNCHANGED <<notified, retryVars, clientVars, classifyVars>>

\* await AuthService.getUser() settles in checkAndMigrateLocalData: without a
\* stored user the migration is started, otherwise (or if it rejected, which
\* is caught and logged) the check returns and the handler ends.
GetUserSettles(h, r) ==
    /\ hpc[h] = "getUser"
    /\ IF r = "absent"
       THEN /\ hpc' = [hpc EXCEPT ![h] = "migrate"]
            /\ UNCHANGED loading
       ELSE HandlerEnds(h)
    /\ UNCHANGED <<user, userProfile, isAuthenticated, error, notified, retryVars, clientVars, classifyVars>>

\* await migrateLocalDataToFirebase(userId) settles (it only logs): the check
\* returns and the handler ends.
MigrateSettles(h) ==
    /\ hpc[h] = "migrate"
    /\ HandlerEnds(h)
    /\ UNCHANGED <<user, userProfile, isAuthenticated, error, notified, retryVars, clientVars, classifyVars>>

\* await AuthService.clearAllData() settles; a rejection is caught and logged.
ClearAllDataSettles(h, ok) ==
    /\ hpc[h] = "clearAllData"
    /\ HandlerEnds(h)
    /\ UNCHANGED <<user, userProfile, isAuthenticated, error, notified, retryVars, clientVars, classifyVars>>

\* ------------------------------ FirebaseAuthProvider: the context operations
Operations == {"login", "register", "logout", "crossTabLogout", "updateUserProfile"}
ErrLogin == "Login failed. Please check your credentials."
ErrRegister == "Registration failed. Please try again."
ErrUpdate == "Failed to update profile. Please try again."
OpInFlight(o) == opc[o] \notin {"none", "done", "caught", "rejected"}
\* The operation has not been called yet and one more call may be made.
MayCall(o) ==
    /\ opc[o] = "none"
    /\ Cardinality({x \in Operations : opc[x] # "none"}) < MaxOps
\* The call of o is now there: at an await, or over with its promise resolved
\* ("done", or "caught" after a caught failure) or "rejected".
At(o, where) == opc' = [opc EXCEPT ![o] = where]

\* login(email, password), up to await FirebaseService.loginUser.
Login ==
    /\ MayCall("login")
    /\ loading' = TRUE
    /\ error' = Null
    /\ At("login", "loginUser")
    /\ UNCHANGED <<user, userProfile, isAuthenticated, notified, hpc, navCount, retryVars, classifyVars>>

\* loginUser settles: return true, or setError and rethrow; finally
\* setLoading(false).
LoginSettles(ok) ==
    /\ opc["login"] = "loginUser"
    /\ error' = (IF ok THEN error ELSE ErrLogin)
    /\ loading' = FALSE
    /\ At("login", IF ok THEN "done" ELSE "rejected")
    /\ UNCHANGED <<user, userProfile, isAuthenticated, notified, hpc, navCount, retryVars, classifyVars>>

\* register(userData), up to await FirebaseService.registerUser.
Register ==
    /\ MayCall("register")
    /\ loading' = TRUE
    /\ error' = Null
    /\ At("register", "registerUser")
    /\ UNCHANGED <<user, userProfile, isAuthenticated, notified, hpc, navCount, retryVars, classifyVars>>

\* registerUser settles: return true, or setError and rethrow; finally
\* setLoading(false).
RegisterSettles(ok) ==
    /\ opc["register"] = "registerUser"
    /\ error' = (IF ok THEN error ELSE ErrRegister)
    /\ loading' = FALSE
    /\ At("register", IF ok THEN "done" ELSE "rejected")
    /\ UNCHANGED <<user, userProfile, isAuthenticated, notified, hpc, navCount, retryVars, classifyVars>>

\* setUser(null); setUserProfile(null); setIsAuthenticated(false);
\* setError(null); router.replace('/auth/login')
SignedOut ==
    /\ user' = Null
    /\ userProfile' = Null
    /\ isAuthenticated' = FALSE
    /\ error' = Null
    /\ navCount' = navCount + 1

\* The catch block of logout: the same clearing and navigation as the try
\* block after the await.
LogoutCatchOnlyLogs ==
    UNCHANGED <<user, userProfile, isAuthenticated, error, navCount>>
LogoutCatch == SignedOut

\* logout(), up to await AuthService.logout().
Logout ==
    /\ MayCall("logout")
    /\ loading' = TRUE
    /\ At("logout", "authLogout")
    /\ UNCHANGED <<user, userProfile, isAuthenticated, error, notified, hpc, navCount,
                   retryVars, classifyVars>>

\* AuthService.logout() settles: the rest of the try block or the catch
\* block, then finally setLoading(false). logout never rethrows.
LogoutSettles(ok) ==
    /\ opc["logout"] = "authLogout"
    /\ IF ok THEN SignedOut ELSE LogoutCatch
    /\ loading' = FALSE
    /\ At("logout", IF ok THEN "done" ELSE "caught")
    /\ UNCHANGED <<notified, hpc, retryVars, classifyVars>>

\* A storage event with key 'logout' and newValue 'true' arrives:
\* handleCrossTabLogout runs to its end (it has no await).
CrossTabLogout ==
    /\ MayCall("crossTabLogout")
    /\ SignedOut
    /\ At("crossTabLogout", "done")
    /\ UNCHANGED <<loading, notified, hpc, retryVars, classifyVars>>

\* updateUserProfile(updates), up to its first await: without a user it throws
\* at once (setError, rethrow); with one, setError(null), and the old profile
\* image is deleted first when updates replace the image of a loaded profile.
UpdateUserProfile(replacesImage) ==
    /\ MayCall("updateUserProfile")
    /\ IF user = Null
       THEN /\ replacesImage = FALSE
            /\ error' = ErrUpdate
            /\ At("updateUserProfile", "rejected")
       ELSE /\ replacesImage => userProfile # Null
            /\ error' = Null
            /\ At("updateUserProfile",
                  IF replacesImage THEN "deleteProfileImage" ELSE "updateUserProfile")
    /\ UNCHANGED <<user, userProfile, loading, isAuthenticated, notified, hpc, navCount,
                   retryVars, classifyVars>>

\* deleteProfileImage settles; a rejection is caught and logged.
DeleteProfileImageSettles(ok) ==
    /\ opc["updateUserProfile"] = "deleteProfileImage"
    /\ At("updateUserProfile", "updateUserProfile")
    /\ UNCHANGED <<user, userProfile, loading, isAuthenticated, error, notified, hpc,
                   navCount, retryVars, classifyVars>>

\* FirebaseService.updateUserProfile settles: the updates are merged into the
\* current profile if there is one (setUserProfile(prev => prev ? ... : null):
\* the profile stays that of the same user, null stays null), or setError and
\* rethrow.
UpdateUserProfileSettles(ok) ==
    /\ opc["updateUserProfile"] = "updateUserProfile"
    /\ error' = (IF ok THEN error ELSE ErrUpdate)
    /\ At("updateUserProfile", IF ok THEN "done" ELSE "rejected")
    /\ UNCHANGED <<user, userProfile, loading, isAuthenticated, notified, hpc, navCount,
                   retryVars, classifyVars>>

\* ------------------------------------------------------------ specification
\* useState initial values; no notification delivered yet.
AuthInit ==
    /\ user = Null
    /\ userProfile = Null
    /\ loading = TRUE
    /\ isAuthenticated = FALSE
    /\ error = Null
    /\ notified = <<>>
    /\ hpc = [h \in Handlers |-> "none"]
    /\ opc = [o \in Operations |-> "none"]
    /\ navCount = 0
    /\ classified = <<>>

\* Either one call with any options, or NumCalls calls running together.
Init ==
    /\ \/ /\ options \in [Calls -> AllOptions]
          /\ \A c \in Calls \ {1} : options[c] = NoOptions
          /\ pc = [c \in Calls |-> IF c = 1 THEN "called" ELSE "idle"]
       \/ /\ options \in [Calls -> ConcurrentOptions]
          /\ pc = [c \in Calls |-> "called"]
    /\ attempt = [c \in Calls |-> 0]
    /\ lastError = [c \in Calls |-> Undefined]
    /\ trace = [c \in Calls |-> <<>>]
    /\ \E isDevelopment \in BOOLEAN : config = LoggerConfig(isDevelopment)
    /\ console = [c \in Calls |-> <<>>]
    /\ ready = <<>>
    /\ AuthInit

Next ==
    \/ \E c \in Calls : Begin(c)
    \/ \E c \in Calls, v \in OpValues : FnResolves(c, v)
    \/ \E c \in Calls, e \in OpErrors, cbThrows \in BOOLEAN : FnRejects(c, e, cbThrows)
    \/ \E c \in Calls : TimerExpires(c)
    \/ \E c \in Calls : TimerFires(c)

Spec == Init /\ [][Next]_vars

\* Every invocation of the operation settles and every timer fires.
Fairness ==
    \A c \in Calls :
        /\ WF_vars(Begin(c))
        /\ WF_vars(\/ \E v \in OpValues : FnResolves(c, v)
                   \/ \E e \in OpErrors, cbThrows \in BOOLEAN : FnRejects(c, e, cbThrows))
        /\ WF_vars(TimerExpires(c))
        /\ WF_vars(TimerFires(c))
SpecLive == Init /\ [][Next]_vars /\ Fairness

\* NumCalls calls that retry once, each with a delay of 0 ms or a real one, in
\* a development build.
InitLoop ==
    /\ options \in [Calls -> LoopOptions]
    /\ pc = [c \in Calls |-> "called"]
    /\ attempt = [c \in Calls |-> 0]
    /\ lastError = [c \in Calls |-> Undefined]
    /\ trace = [c \in Calls |-> <<>>]
    /\ config = LoggerConfig(TRUE)
    /\ console = [c \in Calls |-> <<>>]
    /\ ready = <<>>
    /\ AuthInit
SpecLoop == InitLoop /\ [][Next]_vars

\* The provider alone, in a development build: no retryWithBackoff call is
\* made.
InitAuth ==
    /\ options = [c \in Calls |-> NoOptions]
    /\ pc = [c \in Calls |-> "idle"]
    /\ attempt = [c \in Calls |-> 0]
    /\ lastError = [c \in Calls |-> Undefined]
    /\ trace = [c \in Calls |-> <<>>]
    /\ config = LoggerConfig(TRUE)
    /\ console = [c \in Calls |-> <<>>]
    /\ ready = <<>>
    /\ AuthInit

NextAuth ==
    \/ \E u \in AuthUsers \cup {Null} : AuthStateChanged(u)
    \/ \E h \in Handlers, ok \in BOOLEAN : SaveUserSettles(h, ok)
    \/ \E h \in Handlers, r \in {"found", "notfound", "throws"} : GetUserProfileSettles(h, r)
    \/ \E h \in Handlers, r \in {"present", "absent", "throws"} : GetUserSettles(h, r)
    \/ \E h \in Handlers : MigrateSettles(h)
    \/ \E h \in Handlers, ok \in BOOLEAN : ClearAllDataSettles(h, ok)
    \/ Login
    \/ \E ok \in BOOLEAN : LoginSettles(ok)
    \/ Register
    \/ \E ok \in BOOLEAN : RegisterSettles(ok)
    \/ Logout
    \/ \E ok \in BOOLEAN : LogoutSettles(ok)
    \/ CrossTabLogout
    \/ \E replacesImage \in BOOLEAN : UpdateUserProfile(replacesImage)
    \/ \E ok \in BOOLEAN : DeleteProfileImageSettles(ok)
    \/ \E ok \in BOOLEAN : UpdateUserProfileSettles(ok)

SpecAuth == InitAuth /\ [][NextAuth]_vars

\* isNetworkError(err) is called and returns.
IsNetworkError(err) ==
    /\ classified' = <<[error |-> err, returns |-> isNetworkError(err)]>>
    /\ UNCHANGED <<retryVars, authVars>>

\* The error classifier alone, called on one error value after another.
NextClassify == \E err \in ErrorValues : IsNetworkError(err)
SpecClassify == InitAuth /\ [][NextClassify]_vars

\* --------------------------------------------------------------- observation
Evs(c, kind) == SelectSeq(trace[c], LAMBDA x : x.ev = kind)
Count(c, kind) == Len(Evs(c, kind))
Invoked(c) == pc[c] # "idle"
Settled(c) == pc[c] \in {"resolved", "rejected"}
UpTo(n) == [i \in 1..n |-> i]
Numbers(evs) == [i \in 1..Len(evs) |-> evs[i].n]
N(c) == maxAttempts(c)
\* The results the environment fed call c, in order.
Inputs(c) ==
    SelectSeq(trace[c], LAMBDA x : x.ev \in {"ok", "fail", "threw", "timeout"})

\* ------------------------------------------------------------------- claims
\* The operation was invoked N times and a supplied onRetry N-1 times, with
\* attempts 1..N-1 in order; with N = 1, no onRetry call and no delay.
BoundedAttempts(c) ==
    /\ Count(c, "call") = N(c)
    /\ onRetry(c) => Numbers(Evs(c, "onRetry")) = UpTo(N(c) - 1)
    /\ N(c) = 1 => Count(c, "onRetry") = 0 /\ Count(c, "timer") = 0
C2_EventualSuccess ==
    \A c \in Calls :
        Has(trace[c], "ok") =>
            LET t == trace[c]
                k == Count(c, "call")
            IN /\ pc[c] = "resolved"
               /\ Len(t) >= 2
               /\ t[Len(t) - 1].ev = "ok" /\ t[Len(t) - 1].n = k
               /\ t[Len(t)].ev = "resolve" /\ t[Len(t)].num = t[Len(t) - 1].num
               /\ k <= N(c)
               /\ Count(c, "ok") = 1 /\ Count(c, "resolve") = 1
               /\ Numbers(Evs(c, "fail")) = UpTo(k - 1)
               /\ Count(c, "onRetry") = (IF onRetry(c) THEN k - 1 ELSE 0)
               /\ Count(c, "timer") = k - 1 /\ Count(c, "timeout") = k - 1
               /\ Count(c, "reject") = 0 /\ Count(c, "error") = 0
C2_Witness ==
    \E c \in Calls :
        /\ pc[c] = "resolved" /\ onRetry(c)
        /\ Count(c, "call") = 3 /\ Count(c, "onRetry") = 2 /\ Count(c, "timer") = 2

\* C3: when all maxAttempts attempts failed, the call rejects with exactly the
\* error of the last attempt, and every onRetry(n, e) call received the error
\* of attempt n.
C3_LastError ==
    \A c \in Calls :
        /\ (pc[c] = "rejected" /\ N(c) >= 1 /\ Count(c, "fail") = N(c)) =>
               /\ Last(trace[c]).ev = "reject"
               /\ Last(trace[c]).err = Evs(c, "fail")[N(c)].err
               /\ Count(c, "reject") = 1
        /\ \A i \in 1..Count(c, "onRetry") :
               LET r == Evs(c, "onRetry")[i]
               IN /\ r.n <= Count(c, "fail")
                  /\ r.err = Evs(c, "fail")[r.n].err
C3_Witness ==
    \E c \in Calls :
        /\ pc[c] = "rejected" /\ N(c) = 3 /\ onRetry(c) /\ Count(c, "fail") = 3
        /\ Count(c, "onRetry") = 2
        /\ Cardinality({Evs(c, "fail")[i].err : i \in 1..3}) = 3

\* C4: the delay taken after the n-th failed attempt is delayMs * n with
\* backoff and delayMs without, and with the default delayMs and backoff it
\* is 1000 before attempt 2 and 2000 before attempt 3.
C4_BackoffScaling ==
    \A c \in Calls :
        \A i \in 1..Count(c, "timer") :
            LET t == Evs(c, "timer")[i]
            IN /\ t.n = i /\ t.n < N(c)
               /\ t.num = (IF backoff(c) THEN delayMs(c) * t.n ELSE delayMs(c))
               /\ ("delayMs" \notin DOMAIN options[c] /\ "backoff" \notin DOMAIN options[c])
                      => /\ t.n = 1 => t.num = 1000
                         /\ t.n = 2 => t.num = 2000
C4_Witness ==
    \E c \in Calls :
        /\ DOMAIN options[c] = {}
        /\ Count(c, "timer") = 2
        /\ Evs(c, "timer")[2].num = 2000

\* Call c has settled at most once, and exactly once if it is over: resolved
\* after a success, or rejected without one.
SettlesOnce(c) ==
    /\ Count(c, "resolve") + Count(c, "reject") = (IF Settled(c) THEN 1 ELSE 0)
    /\ pc[c] = "resolved" =>
           /\ Last(trace[c]).ev = "resolve" /\ Count(c, "ok") = 1
    /\ pc[c] = "rejected" =>
           /\ Last(trace[c]).ev = "reject" /\ Count(c, "ok") = 0
\* C5 (as stated): every call with maxAttempts >= 1 whose operation always
\* settles eventually settles, exactly once, either resolved with a success
\* value or rejected, and it is rejected only after the operation has failed
\* maxAttempts times.
C5_AsStated ==
    /\ [](\A c \in Calls : N(c) >= 1 =>
              /\ SettlesOnce(c)
              /\ pc[c] = "rejected" => Count(c, "fail") = N(c))
    /\ \A c \in Calls : (Invoked(c) /\ N(c) >= 1) => <>Settled(c)
\* C5 (amended): the same, but the call is rejected only after the operation
\* has failed maxAttempts times or after onRetry has thrown.
C5_SettlesExactlyOnce ==
    /\ [](\A c \in Calls : N(c) >= 1 =>
              /\ SettlesOnce(c)
              /\ pc[c] = "rejected" =>
                     \/ Count(c, "fail") = N(c) /\ Count(c, "threw") = 0
                     \/ Count(c, "threw") = 1 /\ Last(trace[c]).err = CbError)
    /\ \A c \in Calls : (Invoked(c) /\ N(c) >= 1) => <>Settled(c)
C5_Witness ==
    \E c, d \in Calls :
        /\ pc[c] = "rejected" /\ N(c) = 2 /\ Count(c, "fail") = 2
        /\ pc[d] = "resolved" /\ N(d) = 2 /\ Count(d, "fail") = 1

\* The attempts in flight after the first i events of t.
InFlightAfter(t, i) ==
    Cardinality({j \in 1..i : t[j].ev = "call"})
        - Cardinality({j \in 1..i : t[j].ev \in {"ok", "fail"}})
\* Event i of t comes right after an event of that kind of the same attempt.
Follows(t, i, kind) == i > 1 /\ t[i - 1].ev = kind /\ t[i - 1].n = t[i].n
\* C6: within one call the events are strictly ordered: attempt n fails, then
\* onRetry(n, error) is invoked, then the delay begins, then it ends, then
\* attempt n+1 starts; at most one attempt is in flight at any time and
\* attempt n+1 starts only after attempt n has failed.
C6_StrictOrder ==
    \A c \in Calls :
        LET t == trace[c] IN
        \A i \in 1..Len(t) :
            /\ InFlightAfter(t, i) \in {0, 1}
            /\ t[i].ev = "call" =>
                   IF t[i].n = 1 THEN i = 1
                   ELSE /\ t[i - 1].ev = "timeout" /\ t[i - 1].n = t[i].n - 1
                        /\ \E j \in 1..(i - 1) : t[j].ev = "fail" /\ t[j].n = t[i].n - 1
            /\ t[i].ev \in {"ok", "fail"} => Follows(t, i, "call")
            /\ t[i].ev = "warn" => Follows(t, i, "fail")
            /\ t[i].ev = "onRetry" => Follows(t, i, "warn") /\ t[i].err = t[i - 2].err
            /\ t[i].ev = "timer" =>
                   Follows(t, i, IF onRetry(c) THEN "onRetry" ELSE "warn")
            /\ t[i].ev = "timeout" => Follows(t, i, "timer")
C6_Witness ==
    \E c \in Calls :
        /\ onRetry(c) /\ pc[c] = "await_fn" /\ Count(c, "call") = 3
        /\ Count(c, "timeout") = 2

\* C7: with maxAttempts >= 1 the attempt counter never exceeds maxAttempts, at
\* most maxAttempts - 1 delays are started and onRetry calls made, and none
\* after the failure of attempt number maxAttempts.
C7_Bounded ==
    \A c \in Calls :
        (Invoked(c) /\ N(c) >= 1) =>
            /\ attempt[Slot(c)] <= N(c)
            /\ Count(c, "call") <= N(c)
            /\ Count(c, "timer") <= N(c) - 1
            /\ Count(c, "onRetry") <= N(c) - 1
            /\ \A i \in 1..Len(trace[c]) :
                   (trace[c][i].ev = "fail" /\ trace[c][i].n = N(c)) =>
                       \A j \in (i + 1)..Len(trace[c]) :
                           trace[c][j].ev \in {"error", "reject"}
C7_Witness ==
    \E c \in Calls :
        /\ N(c) = 3 /\ onRetry(c) /\ pc[c] = "rejected" /\ attempt[Slot(c)] = 3
        /\ Count(c, "timer") = 2 /\ Count(c, "onRetry") = 2 /\ Count(c, "fail") = 3

\* C8: calls running concurrently do not interact: what each call has done
\* (attempts, onRetry arguments, delays, outcome) is what it does when run
\* alone on the same operation results.
C8_Independent ==
    \A c \in Calls :
        pc[c] \notin {"idle", "called"} =>
            /\ trace[c] = Alone(c, Inputs(c), 1, Undefined)
            /\ pc[c] = PcAfter(<<Last(Alone(c, Inputs(c), 1, Undefined))>>)
C8_Witness ==
    \E c, d \in Calls :
        /\ c # d
        /\ pc[c] = "delay" /\ Count(c, "fail") = 1
        /\ pc[d] = "rejected" /\ N(d) = 2 /\ Count(d, "fail") = 2

\* C9: if onRetry throws after the n-th failed attempt, the call rejects with
\* the error onRetry threw, not the operation's, no delay is taken and the
\* operation is not invoked again, although attempts remain.
C9_OnRetryThrowPropagates ==
    \A c \in Calls :
        LET t == trace[c] IN
        \A i \in 1..Len(t) :
            t[i].ev = "threw" =>
                /\ Follows(t, i, "onRetry")
                /\ i + 1 = Len(t)
                /\ t[i + 1].ev = "reject" /\ t[i + 1].err = t[i].err
                /\ t[i + 1].err # t[i - 1].err
                /\ pc[c] = "rejected"
                /\ t[i].n < N(c)
                /\ Count(c, "call") = t[i].n
                /\ Count(c, "timer") = t[i].n - 1
C9_Witness ==
    \E c \in Calls :
        /\ N(c) = 3 /\ pc[c] = "rejected" /\ Count(c, "threw") = 1
        /\ Count(c, "call") = 2 /\ Count(c, "timer") = 1
        /\ Last(trace[c]).err = CbError

\* C10: whenever the handlers of all notifications delivered so far have
\* completed, the provider's user is the user carried by the most recent
\* notification and isAuthenticated is true exactly when it is non-null.
C10_MirrorsIdentityProvider ==
    (notified # <<>> /\ \A h \in 1..Len(notified) : HandlerDone(h)) =>
        /\ user = Last(notified)
        /\ isAuthenticated <=> (user # Null)

\* No handler and no operation of the provider is in flight.
Quiescent ==
    /\ \A h \in Handlers : hpc[h] \in {"none", "done", "failed"}
    /\ \A o \in Operations : ~OpInFlight(o)

\* C11: in every state where no handler or operation is in flight,
\* userProfile is non-null only if user is non-null.
C11_ProfileOnlyWithUser ==
    Quiescent => (userProfile # Null => user # Null)

\* A handler, a login, a register or a logout is in flight / has completed.
LoadingHolders == {"login", "register", "logout"}
HolderInFlight ==
    \/ \E h \in Handlers : hpc[h] \notin {"none", "done", "failed"}
    \/ \E o \in LoadingHolders : OpInFlight(o)
HolderCompleted ==
    \/ \E h \in Handlers : HandlerDone(h)
    \/ \E o \in LoadingHolders : opc[o] \in {"done", "caught", "rejected"}

\* C12: loading is true whenever a handler, a login, a register or a logout
\* is in flight, and false once all of them have completed.
C12_LoadingWhileInFlight ==
    /\ HolderInFlight => loading
    /\ (~HolderInFlight /\ HolderCompleted) => ~loading

C14_AuthenticatedIffUser ==
    /\ [](isAuthenticated <=> (user # Null))
    /\ [][\A h \in Handlers :
              (hpc[h] # "failed" /\ hpc'[h] = "failed") =>
                  /\ user' = Null /\ userProfile' = Null
                  /\ isAuthenticated' = FALSE /\ error' = ErrAuth]_vars
C14_Witness ==
    \E h, g \in Handlers :
        /\ hpc[h] = "failed" /\ hpc[g] = "getUserProfile" /\ notified[g] # Null
        /\ user = Null /\ ~isAuthenticated /\ error = ErrAuth
        /\ opc["crossTabLogout"] = "done"

\* The messages call c passed to logger.warn and logger.error, in order.
Messages(c) == SelectSeq(trace[c], LAMBDA x : x.ev \in {"warn", "error"})
\* Call c has passed the logger one warning right after each failure of an
\* attempt that is not the last, naming the attempt and the delay chosen, and
\* before onRetry is called; one error right after the failure of the last
\* attempt; k-1 warnings and no error after a success on attempt k; and the
\* logger has written each of them to the console when it is enabled (its
\* level is then debug) and none when it is not.
MessagePerFailure(c) ==
    LET t == trace[c] IN
    /\ \A i \in 1..Len(t) :
           /\ (t[i].ev = "fail" /\ t[i].n < N(c)) =>
                  /\ i < Len(t) /\ t[i + 1].ev = "warn" /\ t[i + 1].n = t[i].n
                  /\ t[i + 1].num =
                         (IF backoff(c) THEN delayMs(c) * t[i].n ELSE delayMs(c))
           /\ (t[i].ev = "fail" /\ t[i].n = N(c)) =>
                  /\ i < Len(t) /\ t[i + 1].ev = "error" /\ t[i + 1].n = N(c)
           /\ t[i].ev = "warn" => Follows(t, i, "fail") /\ t[i].n < N(c)
           /\ t[i].ev = "error" => t[i - 1].ev = "fail" /\ t[i - 1].n = N(c)
           /\ t[i].ev = "onRetry" => Follows(t, i, "warn")
    /\ pc[c] = "resolved" =>
           Count(c, "warn") = Count(c, "call") - 1 /\ Count(c, "error") = 0
    /\ console[c] = (IF config.enabled THEN Messages(c) ELSE <<>>)
\* C15 (as stated): one call emits exactly one warning per retriable failure
\* (naming attempt and delay, before onRetry) and exactly one error when the
\* attempts are exhausted: N-1 warnings and 1 error for an operation that
\* always fails with maxAttempts = N, k-1 warnings and no error for one that
\* succeeds on attempt k.
C15_AsStated ==
    \A c \in Calls :
        /\ MessagePerFailure(c)
        /\ (Settled(c) /\ N(c) >= 1 /\ Count(c, "ok") = 0) =>
               Count(c, "warn") = N(c) - 1 /\ Count(c, "error") = 1
\* C15 (amended): the same, with N-1 warnings and 1 error for an operation
\* that always fails with maxAttempts = N and an onRetry that does not throw
\* (a throwing onRetry ends the call after the warning of that attempt, with
\* no error message).
C15_OneMessagePerFailure ==
    \A c \in Calls :
        /\ MessagePerFailure(c)
        /\ (Settled(c) /\ N(c) >= 1 /\ Count(c, "ok") = 0 /\ Count(c, "threw") = 0) =>
               Count(c, "warn") = N(c) - 1 /\ Count(c, "error") = 1
        /\ Count(c, "threw") = 1 =>
               Count(c, "warn") = Count(c, "fail") /\ Count(c, "error") = 0
C15_Witness ==
    \E c, d \in Calls :
        /\ c # d /\ config.enabled
        /\ pc[c] = "rejected" /\ N(c) = 2 /\ onRetry(c)
        /\ Count(c, "warn") = 1 /\ Count(c, "error") = 1 /\ Len(console[c]) = 2
        /\ pc[d] = "resolved" /\ Count(d, "call") = 2 /\ Len(console[d]) = 1

\* C19: a call with maxAttempts <= 0 never invokes the operation or onRetry,
\* takes no delay and logs nothing: all it ever does is reject with undefined,
\* the value of the unset lastError.
C19_NoAttempts ==
    \A c \in Calls :
        (N(c) <= 0 /\ pc[c] \notin {"idle", "called"}) =>
            /\ pc[c] = "rejected"
            /\ trace[c] = <<Event("reject", 1, Undefined, 0)>>
            /\ Count(c, "call") = 0 /\ Count(c, "onRetry") = 0
            /\ Count(c, "timer") = 0 /\ Count(c, "resolve") = 0
            /\ Count(c, "warn") = 0 /\ Count(c, "error") = 0
            /\ console[c] = <<>>
C19_Witness ==
    \E c \in Calls :
        /\ N(c) < 0 /\ onRetry(c) /\ config.enabled
        /\ pc[c] = "rejected" /\ Last(trace[c]).err = Undefined

\* The events call c adds to its trace in the step.
Added(c) == SubSeq(trace'[c], Len(trace[c]) + 1, Len(trace'[c]))
\* The calls whose timer callback is due before that of c.
Ahead(q, c) == {q[j] : j \in {i \in 1..Len(q) : \A k \in 1..i : q[k] # c}}
\* C16: with delayMs = 0 the loop still yields between a failed attempt and
\* the next one: the step in which attempt n < maxAttempts fails starts no
\* attempt and leaves the call suspended with its timer callback queued behind
\* every callback that is already due; no callback is ever overtaken; and
\* attempt n+1 starts only once the callbacks queued ahead have all run.
C16_ZeroDelayYields ==
    [][\A c \in Calls :
          /\ (delayMs(c) = 0 /\ Has(Added(c), "fail") /\ Added(c)[1].n < N(c)
                  /\ ~Has(Added(c), "threw")) =>
                 /\ ~Has(Added(c), "call")
                 /\ Last(Added(c)).ev = "timer" /\ Last(Added(c)).num = 0
                 /\ pc'[c] = "delay"
                 /\ ready' = Append(ready, c)
          /\ (InQueue(ready, c) /\ InQueue(ready', c)) =>
                 Ahead(ready', c) \subseteq Ahead(ready, c)
          /\ (\E i \in 1..Len(Added(c)) : Added(c)[i].ev = "call" /\ Added(c)[i].n > 1) =>
                 /\ InQueue(ready, c) /\ Ahead(ready, c) = {}
                 /\ ready' = Tail(ready)]_vars
C16_Witness ==
    \E c, d \in Calls :
        /\ c # d /\ delayMs(c) = 0 /\ delayMs(d) > 0
        /\ ready = <<d, c>>
        /\ pc[c] = "delay" /\ Count(c, "fail") = 1 /\ Count(c, "call") = 1

\* An invocation of the operation by call c has not settled.
InFlightCall(c) == trace[c] # <<>> /\ Last(trace[c]).ev = "call"
\* C17: no timeout is enforced: while an invocation of the operation has not
\* settled the call is neither resolved nor rejected, no timer runs for it,
\* onRetry has not been invoked for that attempt, and the only thing the call
\* ever does next is to take the result of that invocation; so if it never
\* settles, the call never settles and starts no further attempt.
C17_NoTimeout ==
    /\ [](\A c \in Calls :
              InFlightCall(c) =>
                  /\ pc[c] = "await_fn"
                  /\ ~InQueue(ready, c)
                  /\ Count(c, "resolve") = 0 /\ Count(c, "reject") = 0
                  /\ Count(c, "call") = Last(trace[c]).n
                  /\ \A i \in 1..Len(trace[c]) :
                         trace[c][i].ev = "onRetry" => trace[c][i].n < Last(trace[c]).n)
    /\ [][\A c \in Calls :
              (InFlightCall(c) /\ <<pc[c], trace[c]>> # <<pc'[c], trace'[c]>>) =>
                  /\ Len(trace'[c]) > Len(trace[c])
                  /\ SubSeq(trace'[c], 1, Len(trace[c])) = trace[c]
                  /\ Added(c)[1].ev \in {"ok", "fail"}
                  /\ Added(c)[1].n = Last(trace[c]).n]_vars
C17_Witness ==
    \E c, d \in Calls :
        /\ c # d /\ InFlightCall(c) /\ pc[c] = "await_fn"
        /\ onRetry(c) /\ Count(c, "call") = 2 /\ Count(c, "onRetry") = 1
        /\ Settled(d) /\ Count(d, "call") = 2

\* C18: isNetworkError returns true exactly when the message of the error
\* contains one of the seven markers, compared without regard to case, and
\* false for null and for an error without a message; so it returns true for
\* the messages 'ERR_NETWORK' and 'ERR_INTERNET_DISCONNECTED'.
C18_CaseInsensitiveMarkers ==
    \A i \in 1..Len(classified) :
        LET err == classified[i].error IN
        classified[i].returns <=>
            /\ err.type # "null" /\ "message" \in DOMAIN err
            /\ \E msg \in networkErrorMessages :
                   includes(toLowerCase(err.message), toLowerCase(msg))

====
